---- MODULE Spec2Model ----
(***************************************************************************)
(* Model of the asset synchronisation controller of ArkReaderAssets        *)
(* (scripts/Downloader.py) and of the helpers it drives                    *)
(* (utils/versions.py, utils/checker.py, utils/filter.py, utils/zip.py,    *)
(* utils/download.py).                                                     *)
(*                                                                         *)
(* Text (paths, glob patterns, version strings, file contents) is a        *)
(* sequence of one-character strings, so that glob matching, splitlines,   *)
(* join and the archive-name mangling are computed as the code computes    *)
(* them.  The disk (version record, integrity store file, asset tree,      *)
(* hot-update directory, client package) survives from one process run to  *)
(* the next; everything else is rebuilt by the constructor.                *)
(***************************************************************************)
EXTENDS Integers, Sequences, FiniteSets, TLC

\* ------------------------------------------------------------------ bounds
\* number of process runs (constructions of a Downloader) in one behaviour
MaxRuns == 2
\* number of hash computations that may fail (compute_md5 returning None)
MaxHashFail == 1
\* number of fresh positions a PositionDispatcher may issue
MaxSlots == 3
\* number of transfers whose progress is monitored at the same time
MaxHolders == 3

\* ------------------------------------------------------------ text values
NL == "\n"
\* Python's None, kept apart from every text value
NoneVal == <<"<None>">>
\* a path that does not exist on disk
NoFile == <<"<absent>">>
EmptyText == <<>>

Max(S) == CHOOSE x \in S : \A y \in S : y <= x
Min(S) == CHOOSE x \in S : \A y \in S : x <= y

StartsWith(s, p) == Len(s) >= Len(p) /\ SubSeq(s, 1, Len(p)) = p

RECURSIVE ReplaceAll(_, _, _)
\* str.replace(c, r) for a one-character c
ReplaceAll(s, c, r) ==
    IF s = <<>> THEN <<>>
    ELSE (IF Head(s) = c THEN r ELSE <<Head(s)>>) \o ReplaceAll(Tail(s), c, r)

RECURSIVE SplitOn(_, _)
\* str.split(c): the pieces between occurrences of c, empty pieces kept
SplitOn(s, c) ==
    IF \E i \in 1..Len(s) : s[i] = c
    THEN LET i == Min({j \in 1..Len(s) : s[j] = c})
         IN  <<SubSeq(s, 1, i - 1)>> \o SplitOn(SubSeq(s, i + 1, Len(s)), c)
    ELSE <<s>>

\* str.splitlines(): like split on newline, but no piece for an empty text
\* and none after a final newline
SplitLines(s) ==
    IF s = <<>> THEN <<>>
    ELSE LET parts == SplitOn(s, NL)
         IN  IF parts[Len(parts)] = <<>> THEN SubSeq(parts, 1, Len(parts) - 1)
             ELSE parts

RECURSIVE JoinWith(_, _)
\* sep.join(parts)
JoinWith(parts, sep) ==
    IF parts = <<>> THEN <<>>
    ELSE IF Len(parts) = 1 THEN parts[1]
    ELSE parts[1] \o sep \o JoinWith(Tail(parts), sep)

\* ------------------------------------------------------------ filter.py
RECURSIVE GlobMatch(_, _)
\* re.match of fnmatch.translate(pattern), which is anchored at both ends:
\* `*` matches any run of characters ('/' included), `?` any one character
GlobMatch(p, s) ==
    IF p = <<>> THEN s = <<>>
    ELSE IF Head(p) = "*"
         THEN GlobMatch(Tail(p), s) \/ (s # <<>> /\ GlobMatch(p, Tail(s)))
    ELSE IF s = <<>> THEN FALSE
    ELSE (Head(p) = "?" \/ Head(p) = Head(s)) /\ GlobMatch(Tail(p), Tail(s))

FilterMatch_FirstOnly(patterns, filename) ==
    LET name == ReplaceAll(filename, "\\", <<"/">>)
    IN  IF patterns = <<>> THEN TRUE
        ELSE GlobMatch(patterns[1], name)

\* Filter.compile(patterns)(filename): the alternation of the translated
\* patterns; the alternation of no pattern is the empty regular
\* expression, which re.match finds at the start of every text
FilterMatch(patterns, filename) ==
    LET name == ReplaceAll(filename, "\\", <<"/">>)
    IN  IF patterns = <<>> THEN TRUE
        ELSE \E i \in 1..Len(patterns) : GlobMatch(patterns[i], name)

\* ---------------------------------------------------------- versions.py
DefaultVersion_Populated ==
    [client_version |-> <<"1">>, resource_version |-> <<"1">>]

\* GameVersion(): both fields default to the empty string
DefaultVersion == [client_version |-> EmptyText, resource_version |-> EmptyText]

VersionEq_OneField(a, b) ==
    a.client_version = b.client_version /\ a.resource_version = b.client_version

\* GameVersion.__eq__
VersionEq(a, b) ==
    a.client_version = b.client_version /\ a.resource_version = b.resource_version

\* GameVersion.save: the text written to version.txt
VersionText(v) == v.client_version \o <<NL>> \o v.resource_version

\* GameVersion._load raises ValueError unless the record has two lines
VersionLoadFails(text) == text # NoFile /\ Len(SplitLines(text)) # 2

\* GameVersion.load
VersionLoad(text) ==
    IF text = NoFile THEN DefaultVersion
    ELSE LET lines == SplitLines(text)
         IN  [client_version |-> lines[1], resource_version |-> lines[2]]

\* ----------------------------------------------------------- checker.py
\* FileChecker._data is a dict: a sequence of <<key, value>> with distinct
\* keys, in insertion order
DictKeys(d) == {d[i][1] : i \in DOMAIN d}
DictHas(d, k) == k \in DictKeys(d)
DictGet(d, k) == d[CHOOSE i \in DOMAIN d : d[i][1] = k][2]
DictSet(d, k, v) ==
    IF DictHas(d, k)
    THEN [i \in DOMAIN d |-> IF d[i][1] = k THEN <<k, v>> ELSE d[i]]
    ELSE Append(d, <<k, v>>)
\* the mapping a dict stands for, forgetting the insertion order
DictMap(d) == [k \in DictKeys(d) |-> DictGet(d, k)]

RECURSIVE DictUpdate(_, _)
\* dict.update(other)
DictUpdate(d, other) ==
    IF other = <<>> THEN d
    ELSE DictUpdate(DictSet(d, other[1][1], other[1][2]), Tail(other))

RECURSIVE StoreLines(_)
\* FileChecker.save: the list key, value, key, value, ...
StoreLines(d) ==
    IF d = <<>> THEN <<>> ELSE <<d[1][1], d[1][2]>> \o StoreLines(Tail(d))

\* '\n'.join raises TypeError on a None item
StoreSaveFails(d) == \E i \in DOMAIN d : d[i][2] = NoneVal

\* FileChecker.save: the text written to md5.data
StoreText(d) == JoinWith(StoreLines(d), <<NL>>)

\* FileChecker.load raises IndexError on an odd number of lines
StoreLoadFails(text) == text # NoFile /\ Len(SplitLines(text)) % 2 = 1

RECURSIVE PairsToDict(_, _)
PairsToDict(lines, d) ==
    IF Len(lines) < 2 THEN d
    ELSE PairsToDict(SubSeq(lines, 3, Len(lines)), DictSet(d, lines[1], lines[2]))

\* FileChecker.load
StoreLoad(text) ==
    IF text = NoFile THEN <<>> ELSE PairsToDict(SplitLines(text), <<>>)

\* hashlib.md5(content).hexdigest(): injective on the contents of the model
Md5(content) == <<"h">> \o content

check_info_KeyOnly(d, info) == DictHas(d, info.name)

\* FileChecker.check_info
check_info(d, info) == DictHas(d, info.name) /\ DictGet(d, info.name) = info.md5

\* --------------------------------------------------------------- zip.py
AndroidDir == <<"A", "n", "d", "r", "o", "i", "d">>
\* the prefix _extract tests with str.startswith
AssetsAB == <<"a", "s", "s", "e", "t", "s", "/", "A", "B">>

\* the components of a path, empty ones dropped
Components(path) == SelectSeq(SplitOn(path, "/"), LAMBDA c : c # <<>>)

\* os.path.relpath(path, start) for paths without '.' and '..' components
RelPath(path, start) ==
    LET p == Components(path)
        s == Components(start)
        same == {k \in 0..Min({Len(p), Len(s)}) : SubSeq(p, 1, k) = SubSeq(s, 1, k)}
        k == Max(same)
        ups == [i \in 1..(Len(s) - k) |-> <<".", ".">>]
        rel == ups \o SubSeq(p, k + 1, Len(p))
    IN  IF rel = <<>> THEN <<".">> ELSE JoinWith(rel, <<"/">>)

\* _extract, lines 38-41: the destination of a member, relative to asset_path
TargetPath(member) ==
    IF StartsWith(member, AssetsAB) THEN RelPath(member, AssetsAB)
    ELSE AndroidDir \o <<"/">> \o member

\* _extract, line 32: the members the filter retains, in archive order
Retained(members, patterns) ==
    SelectSeq(members, LAMBDA m : FilterMatch(patterns, m.name))

RECURSIVE WriteMembers(_, _)
\* _extract, lines 36-52: each member is written over its destination
WriteMembers(tree, ms) ==
    IF ms = <<>> THEN tree
    ELSE LET t == TargetPath(ms[1].name)
         IN  WriteMembers([q \in DOMAIN tree \cup {t} |->
                               IF q = t THEN ms[1].content ELSE tree[q]],
                          Tail(ms))

\* _extract's return value: the destinations written, in archive order
WrittenPaths(ms) == [i \in DOMAIN ms |-> TargetPath(ms[i].name)]

\* Path.relative_to(raw/Android).as_posix(); ValueError for a path elsewhere
UnderAndroid(path) == StartsWith(path, AndroidDir \o <<"/">>)
StoreKey(path) == SubSeq(path, Len(AndroidDir) + 2, Len(path))

\* -------------------------------------------------- configuration (inputs)
\* scripts/config/downloader.json: "filter" and "hot_update_list"."exclude"
IncludePatterns == << <<"a", "/", "*">>, <<"b", "/", "*">> >>
ExcludePatterns == << <<"b", "/", "*">>, <<"c", "/", "*">> >>
\* download_apk, lines 172-174: "assets/AB/Android/" + filter
ApkPatterns ==
    [i \in DOMAIN IncludePatterns |->
        AssetsAB \o <<"/">> \o AndroidDir \o <<"/">> \o IncludePatterns[i]]

\* ---------------------------------------------------------- Downloader.py
\* infos.py, get_valid_str_value: a missing or empty value is None
get_valid_str_value(v) == IF v = EmptyText THEN NoneVal ELSE v

\* HotUpdateInfo.from_dict
from_dict(raw) ==
    [name |-> raw.name, md5 |-> get_valid_str_value(raw.md5),
     total_size |-> raw.totalSize]

\* name.rsplit('.', 1)[0]
Stem(name) ==
    IF \E i \in 1..Len(name) : name[i] = "."
    THEN SubSeq(name, 1, Max({i \in 1..Len(name) : name[i] = "."}) - 1)
    ELSE name

\* get_hot_update_file_url(...).split('/')[-1]: the archive's file name
HotUpdateFileName(name) ==
    ReplaceAll(ReplaceAll(Stem(name) \o <<".", "d", "a", "t">>, "/", <<"_">>),
               "#", <<"_", "_">>)

Remove(f, k) == [x \in DOMAIN f \ {k} |-> f[x]]

RECURSIVE check_hot_update_loop(_, _, _, _, _)
check_hot_update_loop(infos, d, arch, download, unpack) ==
    IF infos = <<>>
    THEN [download |-> download, unpack |-> unpack, archives |-> arch]
    ELSE LET info == Head(infos)
             rest == Tail(infos)
             zip  == HotUpdateFileName(info.name)
         IN  IF FilterMatch(ExcludePatterns, info.name)
             THEN check_hot_update_loop(rest, d, arch, download, unpack)
             ELSE IF ~FilterMatch(IncludePatterns, info.name)
             THEN check_hot_update_loop(rest, d, arch, download, unpack)
             ELSE IF check_info(d, info)
             THEN check_hot_update_loop(rest, d, arch, download, unpack)
             ELSE IF zip \in DOMAIN arch /\ info.total_size = arch[zip].size
             THEN check_hot_update_loop(rest, d, arch, download, Append(unpack, info))
             ELSE check_hot_update_loop(rest, d, Remove(arch, zip),
                                        Append(download, info), Append(unpack, info))

RECURSIVE check_hot_update_loop_NoExclude(_, _, _, _, _)
check_hot_update_loop_NoExclude(infos, d, arch, download, unpack) ==
    IF infos = <<>>
    THEN [download |-> download, unpack |-> unpack, archives |-> arch]
    ELSE LET info == Head(infos)
             rest == Tail(infos)
             zip  == HotUpdateFileName(info.name)
         IN  IF ~FilterMatch(IncludePatterns, info.name)
             THEN check_hot_update_loop_NoExclude(rest, d, arch, download, unpack)
             ELSE IF check_info(d, info)
             THEN check_hot_update_loop_NoExclude(rest, d, arch, download, unpack)
             ELSE IF zip \in DOMAIN arch /\ info.total_size = arch[zip].size
             THEN check_hot_update_loop_NoExclude(rest, d, arch, download, Append(unpack, info))
             ELSE check_hot_update_loop_NoExclude(rest, d, Remove(arch, zip),
                                                  Append(download, info), Append(unpack, info))

check_hot_update_NoExclude(infos, d, arch) ==
    check_hot_update_loop_NoExclude(infos, d, arch, <<>>, <<>>)

RECURSIVE check_hot_update_loop_NoSizeCheck(_, _, _, _, _)
check_hot_update_loop_NoSizeCheck(infos, d, arch, download, unpack) ==
    IF infos = <<>>
    THEN [download |-> download, unpack |-> unpack, archives |-> arch]
    ELSE LET info == Head(infos)
             rest == Tail(infos)
             zip  == HotUpdateFileName(info.name)
         IN  IF FilterMatch(ExcludePatterns, info.name)
             THEN check_hot_update_loop_NoSizeCheck(rest, d, arch, download, unpack)
             ELSE IF ~FilterMatch(IncludePatterns, info.name)
             THEN check_hot_update_loop_NoSizeCheck(rest, d, arch, download, unpack)
             ELSE IF check_info(d, info)
             THEN check_hot_update_loop_NoSizeCheck(rest, d, arch, download, unpack)
             ELSE IF zip \in DOMAIN arch
             THEN check_hot_update_loop_NoSizeCheck(rest, d, arch, download, Append(unpack, info))
             ELSE check_hot_update_loop_NoSizeCheck(rest, d, arch,
                                                    Append(download, info), Append(unpack, info))

check_hot_update_NoSizeCheck(infos, d, arch) ==
    check_hot_update_loop_NoSizeCheck(infos, d, arch, <<>>, <<>>)

\* Downloader.check_hot_update: the download list, the unpack list and the
\* hot-update directory after the stale archives were unlinked
check_hot_update(infos, d, arch) == check_hot_update_loop(infos, d, arch, <<>>, <<>>)

RECURSIVE SetToSeq(_)
\* a directory listing: the files of a set in some fixed order
SetToSeq(S) ==
    IF S = {} THEN <<>>
    ELSE LET x == CHOOSE y \in S : TRUE IN <<x>> \o SetToSeq(S \ {x})

\* FileChecker.compute_md5_for_files: one {key: md5} per file, in order;
\* compute_md5 gives None for a file it could not read (paths in unreadable)
compute_md5_for_files(paths, tree, unreadable) ==
    [i \in DOMAIN paths |->
        <<StoreKey(paths[i]),
          IF paths[i] \in unreadable THEN NoneVal ELSE Md5(tree[paths[i]])>>]

\* FileChecker.cal_files
cal_files(d, paths, tree, unreadable) ==
    DictUpdate(d, compute_md5_for_files(paths, tree, unreadable))

update_Appends(d, path, md5) == Append(d, <<StoreKey(path), md5>>)

\* FileChecker.update
update(d, path, md5) == DictSet(d, StoreKey(path), md5)

\* cal_all, line 100: the regular files under raw/Android
FilesUnderRoot(tree) == SetToSeq({q \in DOMAIN tree : UnderAndroid(q)})

RECURSIVE check_md5_loop_RecordsDeclared(_, _, _, _, _)
check_md5_loop_RecordsDeclared(d, infos, unzipped, tree, unreadable) ==
    IF infos = <<>> \/ unzipped = <<>> THEN d
    ELSE LET info  == Head(infos)
             paths == Head(unzipped)
             d2 == IF Len(paths) = 0 THEN d
                   ELSE IF info.md5 # NoneVal
                        THEN update(d, paths[1], info.md5)
                        ELSE cal_files(d, paths, tree, unreadable)
         IN  check_md5_loop_RecordsDeclared(d2, Tail(infos), Tail(unzipped), tree, unreadable)

RECURSIVE check_md5_loop(_, _, _, _, _)
\* hot_update, lines 274-284
check_md5_loop(d, infos, unzipped, tree, unreadable) ==
    IF infos = <<>> \/ unzipped = <<>> THEN d
    ELSE LET info  == Head(infos)
             paths == Head(unzipped)
             d2 == IF Len(paths) = 0 THEN d
                   ELSE IF info.md5 # NoneVal
                        THEN update(d, paths[1], Md5(tree[paths[1]]))
                        ELSE cal_files(d, paths, tree, unreadable)
         IN  check_md5_loop(d2, Tail(infos), Tail(unzipped), tree, unreadable)

\* relative_to raises ValueError for a written path outside raw/Android
check_md5_raises(infos, unzipped) ==
    \E i \in DOMAIN infos :
        /\ Len(unzipped[i]) > 0
        /\ IF infos[i].md5 # NoneVal THEN ~UnderAndroid(unzipped[i][1])
           ELSE \E j \in DOMAIN unzipped[i] : ~UnderAndroid(unzipped[i][j])

RECURSIVE sorted(_)
\* sorted(res) on <<task, list>> pairs: ascending in the task number, which
\* no two pairs share
sorted(pairs) ==
    IF pairs = <<>> THEN <<>>
    ELSE LET m == CHOOSE k \in DOMAIN pairs :
                      \A j \in DOMAIN pairs : pairs[k][1] <= pairs[j][1]
         IN  <<pairs[m]>> \o sorted(SubSeq(pairs, 1, m - 1) \o SubSeq(pairs, m + 1, Len(pairs)))

gather_AsCompleted(pairs) == [k \in DOMAIN pairs |-> pairs[k][2]]

\* tqdm_asyncio.gather, called by extract_files, lines 89-93: the tasks are
\* awaited as they complete, each giving its number with its result, and
\* the results are returned in the order of the task numbers
gather(pairs) == [k \in DOMAIN pairs |-> sorted(pairs)[k][2]]

\* -------------------------------------------------------- dispatcher.py
\* released_positions is a heapq heap: a list; the positions below are the
\* list indices plus one, so the parent of position p is p \div 2 and its
\* children are 2p and 2p + 1

RECURSIVE siftdown(_, _, _, _)
\* heapq._siftdown: newitem moves up from pos while it is less than its parent
siftdown(heap, startpos, pos, newitem) ==
    IF pos > startpos /\ newitem < heap[pos \div 2]
    THEN siftdown([heap EXCEPT ![pos] = heap[pos \div 2]], startpos, pos \div 2, newitem)
    ELSE [heap EXCEPT ![pos] = newitem]

\* heapq.heappush
heappush(heap, item) == siftdown(Append(heap, item), 1, Len(heap) + 1, item)

RECURSIVE siftup_loop(_, _)
\* heapq._siftup, the loop: the smaller child moves up until a leaf is met
siftup_loop(heap, pos) ==
    IF 2 * pos <= Len(heap)
    THEN LET childpos == 2 * pos
             rightpos == childpos + 1
             c == IF rightpos <= Len(heap) /\ ~(heap[childpos] < heap[rightpos])
                  THEN rightpos ELSE childpos
         IN  siftup_loop([heap EXCEPT ![pos] = heap[c]], c)
    ELSE [heap |-> heap, pos |-> pos]

\* heapq._siftup
siftup(heap, pos) ==
    LET r == siftup_loop(heap, pos)
    IN  siftdown(r.heap, pos, r.pos, heap[pos])

heappop_Last(heap) ==
    [item |-> heap[Len(heap)], heap |-> SubSeq(heap, 1, Len(heap) - 1)]

\* heapq.heappop: the item popped and the heap left
heappop(heap) ==
    LET lastelt == heap[Len(heap)]
        rest == SubSeq(heap, 1, Len(heap) - 1)
    IN  IF rest # <<>>
        THEN [item |-> rest[1], heap |-> siftup([rest EXCEPT ![1] = lastelt], 1)]
        ELSE [item |-> lastelt, heap |-> rest]

\* PositionDispatcher.__init__
NewDispatcher == [counter |-> 0, released_positions |-> <<>>, released_set |-> {}]

request_Peek(d) ==
    IF d.released_positions # <<>>
    THEN [position |-> d.released_positions[1], d |-> d]
    ELSE [position |-> d.counter, d |-> [d EXCEPT !.counter = @ + 1]]

\* PositionDispatcher.request: the position returned and the dispatcher left
request(d) ==
    IF d.released_positions # <<>>
    THEN LET r == heappop(d.released_positions)
         IN  [position |-> r.item,
              d |-> [d EXCEPT !.released_positions = r.heap,
                              !.released_set = @ \ {r.item}]]
    ELSE [position |-> d.counter, d |-> [d EXCEPT !.counter = @ + 1]]

\* PositionDispatcher.release raises ValueError
release_raises(d, position) ==
    ~(position < d.counter /\ position \notin d.released_set)

\* PositionDispatcher.release: the dispatcher left
release(d, position) ==
    IF release_raises(d, position) THEN d
    ELSE [d EXCEPT !.released_positions = heappush(@, position),
                   !.released_set = @ \cup {position}]

\* a call of the dispatcher, as its caller saw it
Call(op, position, raised) == [op |-> op, position |-> position, raised |-> raised]
NoCall == Call("none", 0, FALSE)

\* the holders of progress bars: the batch display of hot_update (line 253)
\* and the transfers watched by monitor_progress
BatchBar == 0
Holders == 0 .. MaxHolders

\* a helper called on its own: which one, and its arguments
Probe(fn, patterns, path, members, names, a, b) ==
    [fn |-> fn, patterns |-> patterns, path |-> path, members |-> members,
     names |-> names, a |-> a, b |-> b]
NoProbe == Probe("none", <<>>, <<>>, <<>>, <<>>, DefaultVersion, DefaultVersion)
Answer(done, value) == [done |-> done, value |-> value]
NoAnswer == Answer(FALSE, <<>>)

\* ------------------------------------------------------------- the remote
N_ax == <<"a", "/", "x">>
N_aw == <<"a", "/", "w">>
N_by == <<"b", "/", "y">>
N_cz == <<"c", "/", "z">>
N_dv == <<"d", "/", "v">>
N_ap == <<"a", "/", "p">>
N_aq == <<"a", "/", "q">>
N_ak == <<"a", "/", "k">>
N_an == <<"a", "/", "n">>
N_am == <<"a", "/", "m">>

Entry(name, md5, size) == [name |-> name, md5 |-> md5, totalSize |-> size]
Member(name, content) == [name |-> name, content |-> content]
InApk(name) == AssetsAB \o <<"/">> \o AndroidDir \o <<"/">> \o name
Archive(size, members) == [size |-> size, members |-> members]

\* one generation of the remote: the version endpoint, the manifest
\* (hot_update_list.json), the archives behind it and the client package.
\* cx, cw: contents of a/x and a/w in their archives; ca: content of the
\* files a/x and a/k of the client package; more: the bundle entries this
\* generation adds
Generation(client, res, cx, cw, ca, more) ==
    [clientVersion |-> client, resVersion |-> res, versionId |-> res,
     abInfos   |-> << Entry(N_ax, Md5(cx), 3), Entry(N_aw, EmptyText, 4),
                      Entry(N_by, Md5(cx), 2), Entry(N_dv, EmptyText, 2) >> \o more,
     packInfos |-> << Entry(N_ap, EmptyText, 5), Entry(N_cz, EmptyText, 2) >>,
     zips |-> [f \in {HotUpdateFileName(n) : n \in {N_ax, N_aw, N_by, N_cz, N_dv, N_ap, N_an, N_am}} |->
                 CASE f = HotUpdateFileName(N_ax) -> Archive(3, <<Member(N_ax, cx)>>)
                   [] f = HotUpdateFileName(N_aw) -> Archive(4, <<Member(N_aw, cw)>>)
                   [] f = HotUpdateFileName(N_an) -> Archive(2, <<Member(N_an, <<"5">>)>>)
                   [] f = HotUpdateFileName(N_am) ->
                          Archive(6, <<Member(N_am, <<"7">>), Member(N_ak, <<"7">>),
                                       Member(N_aq, <<"7">>)>>)
                   [] f = HotUpdateFileName(N_ap) -> Archive(5, <<Member(N_ap, cx), Member(N_aq, cx)>>)
                   [] f = HotUpdateFileName(N_by) -> Archive(2, <<Member(N_by, cx)>>)
                   [] f = HotUpdateFileName(N_cz) -> Archive(2, <<Member(N_cz, cx)>>)
                   [] f = HotUpdateFileName(N_dv) -> Archive(2, <<Member(N_dv, cx)>>)],
     apkFound |-> TRUE,
     apk |-> << Member(InApk(N_ax), ca), Member(<<"l", "i", "b", "/", "z">>, ca),
                Member(InApk(N_ak), ca) >>]

Gen1 == Generation(<<"1">>, <<"1">>, <<"1">>, <<"1">>, <<"1">>, <<>>)
\* a new resource version for the same client: a/x is unchanged, a/w is
\* new content, a/n is a new entry
Gen2 == Generation(<<"1">>, <<"2">>, <<"1">>, <<"3">>, <<"1">>,
                   <<Entry(N_an, Md5(<<"5">>), 2)>>)
\* a new client and a new resource version
Gen3 == Generation(<<"2">>, <<"3">>, <<"2">>, <<"3">>, <<"4">>, <<>>)
\* a new resource version for the same client: the hash declared for a/n
\* is not the hash of the file its archive holds, and the archive of a/m,
\* which declares a hash, holds three files: a/m, a/k and a/q
Gen4 == Generation(<<"1">>, <<"4">>, <<"1">>, <<"3">>, <<"1">>,
                   <<Entry(N_an, Md5(<<"6">>), 2), Entry(N_am, Md5(<<"7">>), 6)>>)
\* the manifest endpoint serves another generation than the version endpoint
Gen2Raced == [Gen2 EXCEPT !.versionId = <<"1">>]
\* the download page carries no android link
Gen3NoLink == [Gen3 EXCEPT !.apkFound = FALSE]
\* a manifest of three bundle entries and no pack entry: a/x and a/w pass
\* the filters, b/y matches the exclusion filter; the client package is
\* the one of Gen1, which holds a/x and a/k
Gen5 ==
    [Gen1 EXCEPT !.resVersion = <<"5">>, !.versionId = <<"5">>,
                 !.abInfos = SubSeq(Gen1.abInfos, 1, 3), !.packInfos = <<>>]
\* the same with a client package that holds no file under assets/AB
Gen5Bare == [Gen5 EXCEPT !.apk = <<Member(<<"l", "i", "b", "/", "z">>, <<"1">>)>>]

Remotes == {Gen1, Gen2, Gen3, Gen4, Gen2Raced, Gen3NoLink, Gen5, Gen5Bare}

\* --------------------------------------------------------------- the disk
EmptyTree == [q \in {} |-> <<>>]
InTree(name) == AndroidDir \o <<"/">> \o name
EmptyDisk ==
    [versionFile |-> NoFile, storeFile |-> NoFile, tree |-> EmptyTree]
\* what a completed sync of an empty root against Gen1 leaves behind
SyncedGen1 ==
    [versionFile |-> <<"1", NL, "1">>,
     storeFile |-> N_ax \o <<NL, "h", "1", NL>> \o N_ak \o <<NL, "h", "1", NL>>
                   \o N_aw \o <<NL, "h", "1">>,
     tree |-> [q \in {InTree(N_ax), InTree(N_ak), InTree(N_aw)} |-> <<"1">>]]
Disks == {EmptyDisk, SyncedGen1}

\* ------------------------------------------------------------------ state
VARIABLES
    versionFile,    \* text of <root>/version.txt, or NoFile
    storeFile,      \* text of md5.data, or NoFile
    tree,           \* files under tmp/raw: path relative to it -> content
    archives,       \* tmp/raw/hot_update: archive file name -> archive
    apkFile,        \* tmp/raw/arknights.apk: "absent", "partial", "complete"
    remote,         \* the remote generation being served
    pc,             \* where the running process is; "off" when none runs
    run,            \* number of processes started so far
    local_version,  \* Downloader.local_version
    init_mode,      \* Downloader.init_mode
    remote_version, \* Downloader.remote_version
    data,           \* FileChecker._data
    download_info,  \* hot_update: the download list
    unzip_info,     \* hot_update: the unpack list
    dl,             \* download task -> "pending" | "done"
    ex,             \* extraction task -> "pending" | "ok" | "failed"
    unzip_files,    \* hot_update: the lists extract_files returned
    res,            \* gather: <<task, its list>> in the order of completion
    origins,        \* history: the disk each run started from
    outcomes,       \* history: how each run ended
    stats,          \* history: what the current run has done so far
    hashFails,      \* history: failed hash computations so far
    dispatcher,     \* DownloadTool.progress_bar_dispatcher
    call,           \* the last call of the dispatcher; its position is the
                    \* `pos` hot_update holds during the download batch
    held,           \* holder of a progress bar -> the positions it holds
    peak,           \* history: the most holders that held a position at once
    probe,          \* the arguments of a helper called on its own
    answer          \* what that call returned

\* the number of holders that hold a position
HeldCount(hd) == Cardinality({h \in DOMAIN hd : hd[h] # {}})

disk == <<versionFile, storeFile, tree, archives, apkFile>>
loaded == <<local_version, init_mode, remote_version, data>>
batch == <<download_info, unzip_info, dl, ex, unzip_files, res>>
slots == <<dispatcher, call, held, peak>>
probes == <<probe, answer>>
vars == <<versionFile, storeFile, tree, archives, apkFile, remote, pc, run,
          local_version, init_mode, remote_version, data, download_info,
          unzip_info, dl, ex, unzip_files, res, origins, outcomes, stats,
          hashFails,
          dispatcher, call, held, peak, probe, answer>>

NoStats == [downloads |-> 0, extractions |-> 0, clientFetches |-> 0,
            clientUnpacks |-> 0, manifestFetches |-> 0, storeWrites |-> 0]

\* hot_update has passed the download barrier, version.txt is not yet opened
LateSteps == {"extracting", "check_md5", "save", "write", "rmtree", "persist"}

EndRun(how) == pc' = "off" /\ outcomes' = Append(outcomes, how)
Count(field) == stats' = [stats EXCEPT ![field] = @ + 1]

Start ==
    /\ remote \in Remotes
    /\ \E d \in Disks :
          /\ versionFile = d.versionFile
          /\ storeFile = d.storeFile
          /\ tree = d.tree
    /\ archives = [f \in {} |-> <<>>]
    /\ apkFile = "absent"
    /\ pc = "off"
    /\ run = 0
    /\ local_version = DefaultVersion
    /\ init_mode = FALSE
    /\ remote_version = DefaultVersion
    /\ data = <<>>
    /\ download_info = <<>>
    /\ unzip_info = <<>>
    /\ dl = <<>>
    /\ ex = <<>>
    /\ unzip_files = <<>>
    /\ res = <<>>
    /\ origins = <<>>
    /\ outcomes = <<>>
    /\ stats = NoStats
    /\ hashFails = 0
    /\ dispatcher = NewDispatcher
    /\ call = NoCall
    /\ held = [h \in Holders |-> {}]
    /\ peak = 0

Init ==
    /\ Start
    /\ probe = NoProbe
    /\ answer = NoAnswer

\* Downloader.__init__, lines 64-69
InitMode(v) == v.client_version = NoneVal /\ v.resource_version = NoneVal

\* Downloader.__init__ (with GameVersion.load and FileChecker.__init__)
Construct ==
    /\ pc = "off"
    /\ run < MaxRuns
    /\ run' = run + 1
    /\ origins' = Append(origins, [versionFile |-> versionFile,
                                   storeFile |-> storeFile, tree |-> tree])
    /\ stats' = NoStats
    /\ download_info' = <<>>
    /\ unzip_info' = <<>>
    /\ dl' = <<>>
    /\ ex' = <<>>
    /\ unzip_files' = <<>>
    /\ res' = <<>>
    /\ remote_version' = DefaultVersion
    /\ dispatcher' = NewDispatcher
    /\ call' = NoCall
    /\ held' = [h \in Holders |-> {}]
    /\ peak' = 0
    /\ UNCHANGED probes
    /\ IF VersionLoadFails(versionFile) \/ StoreLoadFails(storeFile)
       THEN /\ EndRun("error")
            /\ UNCHANGED <<local_version, init_mode, data>>
       ELSE /\ local_version' = VersionLoad(versionFile)
            /\ init_mode' = InitMode(VersionLoad(versionFile))
            /\ data' = StoreLoad(storeFile)
            /\ pc' = "resolve"
            /\ UNCHANGED outcomes
    /\ UNCHANGED <<disk, remote, hashFails>>

\* init_network and get_version
ResolveVersion ==
    /\ pc = "resolve"
    /\ remote_version' = [client_version |-> remote.clientVersion,
                          resource_version |-> remote.resVersion]
    /\ pc' = "compare"
    /\ UNCHANGED <<disk, remote, run, local_version, init_mode, data, batch,
                   origins, outcomes, stats, hashFails>>
    /\ UNCHANGED <<slots, probes>>

\* a request of the aiohttp session raises
NetworkError ==
    /\ pc \in {"resolve", "find_apk", "get_file_list"}
    /\ EndRun("error")
    /\ UNCHANGED <<disk, remote, run, loaded, batch, origins, stats, hashFails>>
    /\ UNCHANGED <<slots, probes>>

CompareVersions_NoReturn ==
    /\ pc = "compare"
    /\ IF local_version.client_version # remote_version.client_version
       THEN pc' = "find_apk"
       ELSE pc' = "get_file_list"
    /\ UNCHANGED <<disk, remote, run, loaded, batch, origins, outcomes, stats, hashFails>>
    /\ UNCHANGED <<slots, probes>>

\* _start, lines 93-101
CompareVersions ==
    /\ pc = "compare"
    /\ IF VersionEq(local_version, remote_version)
       THEN EndRun("uptodate")
       ELSE /\ IF local_version.client_version # remote_version.client_version
               THEN pc' = "find_apk"
               ELSE pc' = "get_file_list"
            /\ UNCHANGED outcomes
    /\ UNCHANGED <<disk, remote, run, loaded, batch, origins, stats, hashFails>>
    /\ UNCHANGED <<slots, probes>>

\* download_apk, lines 160-168
FindApk ==
    /\ pc = "find_apk"
    /\ pc' = IF remote.apkFound THEN "fetch_apk" ELSE "get_file_list"
    /\ UNCHANGED <<disk, remote, run, loaded, batch, origins, outcomes, stats, hashFails>>
    /\ UNCHANGED <<slots, probes>>

\* download_apk, line 170: fetch_file(..., skip=True, monitor_process=True);
\* monitor_progress requests a position and releases it when the mission is
\* done
FetchApk ==
    /\ pc = "fetch_apk"
    /\ IF apkFile # "absent"
       THEN UNCHANGED <<apkFile, stats>>
       ELSE /\ apkFile' \in {"complete", "absent"}
            /\ Count("clientFetches")
    /\ LET r == request(dispatcher)
       IN  /\ dispatcher' = release(r.d, r.position)
           /\ call' = Call("release", r.position, release_raises(r.d, r.position))
    /\ peak' = Max({peak, HeldCount(held) + 1})
    /\ UNCHANGED <<held, probes>>
    /\ pc' = "extract_apk"
    /\ UNCHANGED <<versionFile, storeFile, tree, archives, remote, run, loaded,
                   batch, origins, outcomes, hashFails>>

\* monitor_progress, lines 38-39: the first loop sleeps until the mission
\* has a file name and does not look at mission.is_done; a mission that
\* ended without one (no connection within the retries) leaves the monitor
\* in that loop, and the gather of download() never returns
MonitorStalls ==
    /\ pc = "fetch_apk"
    /\ apkFile = "absent"
    /\ Count("clientFetches")
    /\ pc' = "monitor_wait"
    /\ UNCHANGED <<disk, remote, run, loaded, batch, origins, outcomes, hashFails>>
    /\ UNCHANGED <<slots, probes>>

\* download_apk, lines 172-174: extract_file of the client package
ExtractApk ==
    /\ pc = "extract_apk"
    /\ IF apkFile # "complete"
       THEN /\ EndRun("error")
            /\ UNCHANGED <<tree, stats>>
       ELSE LET ms == Retained(remote.apk, ApkPatterns)
            IN  \E k \in 0..Len(ms) :
                  /\ tree' = WriteMembers(tree, SubSeq(ms, 1, k))
                  /\ Count("clientUnpacks")
                  /\ IF k = Len(ms)
                     THEN pc' = "cal_clear" /\ UNCHANGED outcomes
                     ELSE EndRun("error")
    /\ UNCHANGED <<versionFile, storeFile, archives, apkFile, remote, run,
                   loaded, batch, origins, hashFails>>
    /\ UNCHANGED <<slots, probes>>

\* cal_all, line 98: clear(), which saves the emptied map
CalAllClear ==
    /\ pc = "cal_clear"
    /\ data' = <<>>
    /\ storeFile' = StoreText(<<>>)
    /\ Count("storeWrites")
    /\ pc' = "cal_files"
    /\ UNCHANGED <<versionFile, tree, archives, apkFile, remote, run,
                   local_version, init_mode, remote_version, batch, origins,
                   outcomes, hashFails>>
    /\ UNCHANGED <<slots, probes>>

\* cal_all, lines 100-101
CalAllFiles ==
    /\ pc = "cal_files"
    /\ \E unreadable \in SUBSET {q \in DOMAIN tree : UnderAndroid(q)} :
          /\ hashFails + Cardinality(unreadable) <= MaxHashFail
          /\ hashFails' = hashFails + Cardinality(unreadable)
          /\ data' = cal_files(data, FilesUnderRoot(tree), tree, unreadable)
    /\ pc' = "cal_save"
    /\ UNCHANGED <<disk, remote, run, local_version, init_mode, remote_version,
                   batch, origins, outcomes, stats>>
    /\ UNCHANGED <<slots, probes>>

\* FileChecker.save, line 48: open(..., 'w') truncates the store file
SaveOpen ==
    /\ pc \in {"cal_save", "save"}
    /\ storeFile' = EmptyText
    /\ pc' = IF pc = "cal_save" THEN "cal_write" ELSE "write"
    /\ UNCHANGED <<versionFile, tree, archives, apkFile, remote, run, loaded,
                   batch, origins, outcomes, stats, hashFails>>
    /\ UNCHANGED <<slots, probes>>

\* FileChecker.save, line 49: join and write, then close
SaveWrite ==
    /\ pc \in {"cal_write", "write"}
    /\ IF StoreSaveFails(data)
       THEN /\ EndRun("error")
            /\ UNCHANGED <<storeFile, stats>>
       ELSE /\ storeFile' = StoreText(data)
            /\ Count("storeWrites")
            /\ pc' = IF pc = "cal_write" THEN "unlink_apk" ELSE "rmtree"
            /\ UNCHANGED outcomes
    /\ UNCHANGED <<versionFile, tree, archives, apkFile, remote, run, loaded,
                   batch, origins, hashFails>>
    /\ UNCHANGED <<slots, probes>>

\* download_apk, line 177
UnlinkApk ==
    /\ pc = "unlink_apk"
    /\ apkFile' = "absent"
    /\ pc' = "get_file_list"
    /\ UNCHANGED <<versionFile, storeFile, tree, archives, remote, run, loaded,
                   batch, origins, outcomes, stats, hashFails>>
    /\ UNCHANGED <<slots, probes>>

GetFileList_NoAssert ==
    /\ pc = "get_file_list"
    /\ Count("manifestFetches")
    /\ pc' = "check"
    /\ UNCHANGED <<disk, remote, run, loaded, batch, origins, outcomes, hashFails>>
    /\ UNCHANGED <<slots, probes>>

\* get_file_list: the manifest is fetched and its versionId asserted
GetFileList ==
    /\ pc = "get_file_list"
    /\ Count("manifestFetches")
    /\ IF remote.versionId # remote_version.resource_version
       THEN EndRun("error")
       ELSE pc' = "check" /\ UNCHANGED outcomes
    /\ UNCHANGED <<disk, remote, run, loaded, batch, origins, hashFails>>
    /\ UNCHANGED <<slots, probes>>

Infos(raws) == [i \in DOMAIN raws |-> from_dict(raws[i])]

\* hot_update, lines 241-245: the entries handed to check_hot_update
DownloadList(mode) ==
    Infos(remote.abInfos) \o (IF mode THEN Infos(remote.packInfos) ELSE <<>>)

\* hot_update, lines 243-255: check_hot_update, a position is requested for
\* the batch's progress bar, then the download tasks are created
CheckHotUpdate ==
    /\ pc = "check"
    /\ LET r == check_hot_update(DownloadList(init_mode), data, archives)
       IN  /\ download_info' = r.download
           /\ unzip_info' = r.unpack
           /\ archives' = r.archives
           /\ dl' = [i \in DOMAIN r.download |-> "pending"]
    /\ dispatcher' = request(dispatcher).d
    /\ call' = Call("request", request(dispatcher).position, FALSE)
    /\ held' = [held EXCEPT ![BatchBar] = {request(dispatcher).position}]
    /\ peak' = Max({peak, HeldCount(held')})
    /\ UNCHANGED probes
    /\ pc' = "downloading"
    /\ UNCHANGED <<versionFile, storeFile, tree, apkFile, remote, run, loaded,
                   ex, unzip_files, res, origins, outcomes, stats, hashFails>>

\* download_asset: fetch_file(url, zip_path, skip=True); the mission ends
\* "skipped" on an existing file, else with the whole archive or, once the
\* retries are used up, with nothing; none of these raises
DownloadAsset(i) ==
    /\ pc = "downloading"
    /\ i \in DOMAIN dl
    /\ dl[i] = "pending"
    /\ LET zip == HotUpdateFileName(download_info[i].name)
       IN  IF zip \in DOMAIN archives
           THEN UNCHANGED <<archives, stats>>
           ELSE /\ Count("downloads")
                /\ \/ archives' = [f \in DOMAIN archives \cup {zip} |->
                                      IF f = zip
                                      THEN [size |-> remote.zips[zip].size,
                                            members |-> remote.zips[zip].members,
                                            ok |-> TRUE]
                                      ELSE archives[f]]
                   \/ UNCHANGED archives
    /\ dl' = [dl EXCEPT ![i] = "done"]
    /\ UNCHANGED <<versionFile, storeFile, tree, apkFile, remote, pc, run, loaded,
                   download_info, unzip_info, ex, unzip_files, res, origins,
                   outcomes, hashFails>>
    /\ UNCHANGED <<slots, probes>>

DownloadsFinished_Any == dl = <<>> \/ \E i \in DOMAIN dl : dl[i] = "done"

\* async_tqdm.gather, lines 254-259: every download task has returned
DownloadsFinished == \A i \in DOMAIN dl : dl[i] = "done"

\* hot_update, lines 260-271: past the gather the position is released and
\* the extraction tasks are created, one per entry of the unpack list
DownloadsGathered ==
    /\ pc = "downloading"
    /\ DownloadsFinished
    /\ dispatcher' = release(dispatcher, call.position)
    /\ call' = Call("release", call.position, release_raises(dispatcher, call.position))
    /\ held' = [held EXCEPT ![BatchBar] = {}]
    /\ UNCHANGED <<peak, probes>>
    /\ IF release_raises(dispatcher, call.position)
       THEN /\ EndRun("error")
            /\ UNCHANGED <<ex, unzip_files, res>>
       ELSE /\ ex' = [i \in DOMAIN unzip_info |-> "pending"]
            /\ unzip_files' = <<>>
            /\ res' = <<>>
            /\ pc' = "extracting"
            /\ UNCHANGED outcomes
    /\ UNCHANGED <<disk, remote, run, loaded, download_info, unzip_info, dl,
                   origins, stats, hashFails>>

\* extract_file -> _extract for the archive of the i-th unpack entry: a
\* missing or broken archive raises at once, a write error raises after
\* some members were written
ExtractFile(i) ==
    /\ pc = "extracting"
    /\ i \in DOMAIN ex
    /\ ex[i] = "pending"
    /\ LET zip == HotUpdateFileName(unzip_info[i].name)
       IN  IF zip \notin DOMAIN archives \/ ~archives[zip].ok
           THEN /\ ex' = [ex EXCEPT ![i] = "failed"]
                /\ UNCHANGED <<tree, res, stats>>
           ELSE LET ms == Retained(archives[zip].members, IncludePatterns)
                IN  \E k \in 0..Len(ms) :
                      /\ tree' = WriteMembers(tree, SubSeq(ms, 1, k))
                      /\ Count("extractions")
                      /\ IF k = Len(ms)
                         THEN /\ ex' = [ex EXCEPT ![i] = "ok"]
                              /\ res' = Append(res, <<i, WrittenPaths(ms)>>)
                         ELSE /\ ex' = [ex EXCEPT ![i] = "failed"]
                              /\ UNCHANGED res
    /\ UNCHANGED <<versionFile, storeFile, archives, apkFile, remote, pc, run,
                   loaded, download_info, unzip_info, dl, unzip_files, origins,
                   outcomes, hashFails>>
    /\ UNCHANGED <<slots, probes>>

ExtractGathered_SwallowsErrors ==
    /\ pc = "extracting"
    /\ \A i \in DOMAIN ex : ex[i] # "pending"
    /\ unzip_files' = [i \in DOMAIN ex |->
                          IF \E k \in DOMAIN res : res[k][1] = i
                          THEN res[CHOOSE k \in DOMAIN res : res[k][1] = i][2]
                          ELSE <<>>]
    /\ pc' = "check_md5"
    /\ UNCHANGED <<disk, remote, run, loaded, download_info, unzip_info, dl, ex,
                   res, origins, outcomes, stats, hashFails>>
    /\ UNCHANGED <<slots, probes>>

\* tqdm_asyncio.gather of extract_files returns: every task gave its list,
\* and hot_update, line 271, binds the gathered lists to unzip_files
ExtractGathered ==
    /\ pc = "extracting"
    /\ \A i \in DOMAIN ex : ex[i] = "ok"
    /\ unzip_files' = gather(res)
    /\ pc' = "check_md5"
    /\ UNCHANGED <<disk, remote, run, loaded, download_info, unzip_info, dl, ex,
                   res, origins, outcomes, stats, hashFails>>
    /\ UNCHANGED <<slots, probes>>

\* tqdm_asyncio.gather of extract_files re-raises a task's exception
ExtractRaised ==
    /\ pc = "extracting"
    /\ \E i \in DOMAIN ex : ex[i] = "failed"
    /\ EndRun("error")
    /\ UNCHANGED <<disk, remote, run, loaded, batch, origins, stats, hashFails>>
    /\ UNCHANGED <<slots, probes>>

\* hot_update, lines 273-284: the integrity map takes the hashes of the
\* extracted files
CheckMd5 ==
    /\ pc = "check_md5"
    /\ IF check_md5_raises(unzip_info, unzip_files)
       THEN /\ EndRun("error")
            /\ UNCHANGED <<data, hashFails>>
       ELSE /\ \E unreadable \in SUBSET UNION {{unzip_files[i][j] : j \in DOMAIN unzip_files[i]} :
                                                  i \in {n \in DOMAIN unzip_info : unzip_info[n].md5 = NoneVal}} :
                  /\ hashFails + Cardinality(unreadable) <= MaxHashFail
                  /\ hashFails' = hashFails + Cardinality(unreadable)
                  /\ data' = check_md5_loop(data, unzip_info, unzip_files, tree, unreadable)
            /\ pc' = "save"
            /\ UNCHANGED outcomes
    /\ res' = <<>>
    /\ UNCHANGED <<disk, remote, run, local_version, init_mode, remote_version,
                   download_info, unzip_info, dl, ex, unzip_files, origins, stats>>
    /\ UNCHANGED <<slots, probes>>

\* _start, line 105: shutil.rmtree(hot_update_path, ignore_errors=True)
RemoveHotUpdateDir ==
    /\ pc = "rmtree"
    /\ archives' = [f \in {} |-> <<>>]
    /\ pc' = "persist"
    /\ UNCHANGED <<versionFile, storeFile, tree, apkFile, remote, run, loaded,
                   batch, origins, outcomes, stats, hashFails>>
    /\ UNCHANGED <<slots, probes>>

\* GameVersion.save, line 57: open(..., 'w') truncates version.txt
VersionSaveOpen ==
    /\ pc = "persist"
    /\ versionFile' = EmptyText
    /\ pc' = "persist_write"
    /\ UNCHANGED <<storeFile, tree, archives, apkFile, remote, run, loaded,
                   batch, origins, outcomes, stats, hashFails>>
    /\ UNCHANGED <<slots, probes>>

\* GameVersion.save, line 58, and the return of _start
VersionSaveWrite ==
    /\ pc = "persist_write"
    /\ versionFile' = VersionText(remote_version)
    /\ EndRun("done")
    /\ UNCHANGED <<storeFile, tree, archives, apkFile, remote, run, loaded,
                   batch, origins, stats, hashFails>>
    /\ UNCHANGED <<slots, probes>>

\* the process is killed between two steps
Interrupt ==
    /\ pc # "off"
    /\ EndRun(IF pc \in LateSteps THEN "killed_late"
              ELSE IF pc = "persist_write" THEN "killed_commit" ELSE "killed")
    /\ UNCHANGED <<disk, remote, run, loaded, batch, origins, stats, hashFails>>
    /\ UNCHANGED <<slots, probes>>

\* the process is killed while a transfer is writing its destination
InterruptTransfer ==
    /\ \/ /\ pc = "fetch_apk"
          /\ apkFile = "absent"
          /\ apkFile' = "partial"
          /\ UNCHANGED archives
       \/ /\ pc = "downloading"
          /\ \E i \in DOMAIN dl :
                /\ dl[i] = "pending"
                /\ HotUpdateFileName(download_info[i].name) \notin DOMAIN archives
                /\ archives' = [f \in DOMAIN archives \cup {HotUpdateFileName(download_info[i].name)} |->
                                   IF f = HotUpdateFileName(download_info[i].name)
                                   THEN [size |-> 1, members |-> <<>>, ok |-> FALSE]
                                   ELSE archives[f]]
          /\ UNCHANGED apkFile
    /\ EndRun("killed")
    /\ UNCHANGED <<versionFile, storeFile, tree, remote, run, loaded, batch,
                   origins, stats, hashFails>>
    /\ UNCHANGED <<slots, probes>>

Next ==
    \/ Construct
    \/ ResolveVersion
    \/ NetworkError
    \/ CompareVersions
    \/ FindApk
    \/ FetchApk
    \/ MonitorStalls
    \/ ExtractApk
    \/ CalAllClear
    \/ CalAllFiles
    \/ SaveOpen
    \/ SaveWrite
    \/ UnlinkApk
    \/ GetFileList
    \/ CheckHotUpdate
    \/ \E i \in DOMAIN dl : DownloadAsset(i)
    \/ DownloadsGathered
    \/ \E i \in DOMAIN ex : ExtractFile(i)
    \/ ExtractGathered
    \/ ExtractRaised
    \/ CheckMd5
    \/ RemoveHotUpdateDir
    \/ VersionSaveOpen
    \/ VersionSaveWrite
    \/ Interrupt
    \/ InterruptTransfer

Spec == Init /\ [][Next]_vars

\* the steps of the running process: once every request, mission and task
\* it awaits has finished, the event loop takes the step that follows; the
\* start of a process and a kill are not owed to anyone
Progress ==
    \/ ResolveVersion
    \/ NetworkError
    \/ CompareVersions
    \/ FindApk
    \/ FetchApk
    \/ MonitorStalls
    \/ ExtractApk
    \/ CalAllClear
    \/ CalAllFiles
    \/ SaveOpen
    \/ SaveWrite
    \/ UnlinkApk
    \/ GetFileList
    \/ CheckHotUpdate
    \/ \E i \in DOMAIN dl : DownloadAsset(i)
    \/ DownloadsGathered
    \/ \E i \in DOMAIN ex : ExtractFile(i)
    \/ ExtractGathered
    \/ ExtractRaised
    \/ CheckMd5
    \/ RemoveHotUpdateDir
    \/ VersionSaveOpen
    \/ VersionSaveWrite

LiveSpec == Init /\ [][Next]_vars /\ WF_vars(Progress)

\* ------------------------------------------- the dispatcher on its own
\* A PositionDispatcher driven by arbitrary callers: any sequence of
\* request() and release(p) calls, p any integer of Positions.
Positions == -1 .. MaxSlots

controller == <<versionFile, storeFile, tree, archives, apkFile, remote, pc, run,
                local_version, init_mode, remote_version, data, download_info,
                unzip_info, dl, ex, unzip_files, res, origins, outcomes, stats,
                hashFails>>

DispatcherInit ==
    /\ Init
    /\ remote = Gen1
    /\ versionFile = NoFile

\* a caller calls request()
DispatcherRequest ==
    /\ dispatcher.released_positions # <<>> \/ dispatcher.counter < MaxSlots
    /\ dispatcher' = request(dispatcher).d
    /\ call' = Call("request", request(dispatcher).position, FALSE)
    /\ UNCHANGED <<controller, held, peak, probes>>

\* a caller calls release(p)
DispatcherRelease(p) ==
    /\ dispatcher' = release(dispatcher, p)
    /\ call' = Call("release", p, release_raises(dispatcher, p))
    /\ UNCHANGED <<controller, held, peak, probes>>

DispatcherNext ==
    \/ DispatcherRequest
    \/ \E p \in Positions : DispatcherRelease(p)

DispatcherSpec == DispatcherInit /\ [][DispatcherNext]_vars

\* ---------------------------------------- concurrent progress displays
\* The holders of Holders each request a position, hold it and release it,
\* in any interleaving.  request and release have no suspension point, so
\* each is one step of the event loop.

\* monitor_progress, line 41, and hot_update, line 253
HolderRequest(h) ==
    /\ held[h] = {}
    /\ dispatcher' = request(dispatcher).d
    /\ call' = Call("request", request(dispatcher).position, FALSE)
    /\ held' = [held EXCEPT ![h] = {request(dispatcher).position}]
    /\ peak' = Max({peak, HeldCount(held')})
    /\ UNCHANGED <<controller, probes>>

\* monitor_progress, line 57, and hot_update, line 260
HolderRelease(h) ==
    /\ held[h] # {}
    /\ \E p \in held[h] :
          /\ dispatcher' = release(dispatcher, p)
          /\ call' = Call("release", p, release_raises(dispatcher, p))
    /\ held' = [held EXCEPT ![h] = {}]
    /\ UNCHANGED <<controller, peak, probes>>

HoldersNext ==
    \/ \E h \in Holders : HolderRequest(h)
    \/ \E h \in Holders : HolderRelease(h)

HoldersSpec == DispatcherInit /\ [][HoldersNext]_vars

\* --------------------------------------------- the pure functions, applied
\* glob patterns and paths as a configuration and an archive may hold them
G_bgm == <<"b", "g", "m", "/", "*">>
G_seogg == <<"s", "e", "/", "*", ".", "o", "g", "g">>
G_mp3 == <<"*", ".", "m", "p", "3">>
G_voice1 == <<"v", "o", "i", "c", "e", "/", "1", ".", "m", "p", "3">>
GlobPool == {G_bgm, G_seogg, G_mp3, G_voice1}
PatternLists ==
    {<<>>} \cup {<<g>> : g \in GlobPool} \cup {<<g, h>> : g, h \in GlobPool}

F_theme == <<"b", "g", "m", "/", "t", "h", "e", "m", "e", ".", "m", "p", "3">>
F_hitogg == <<"s", "e", "/", "h", "i", "t", ".", "o", "g", "g">>
F_hitwav == <<"s", "e", "/", "h", "i", "t", ".", "w", "a", "v">>
F_voice1 == <<"v", "o", "i", "c", "e", "/", "1", ".", "m", "p", "3">>
F_deep == <<"b", "g", "m", "/", "a", "/", "t", ".", "m", "p", "3">>
F_bak == <<"s", "e", "/", "h", "i", "t", ".", "o", "g", "g", ".", "b", "a", "k">>
F_win == <<"s", "e", "\\", "h", "i", "t", ".", "o", "g", "g">>
PathPool == {F_theme, F_hitogg, F_hitwav, F_voice1, F_deep, F_bak, F_win}

\* member lists of archives: an empty archive, the archive of a/m, the
\* client package
G_assets == <<"a", "s", "s", "e", "t", "s", "/", "*">>
\* a member whose name begins with the characters of assets/AB without
\* lying under that directory
F_abx == <<"a", "s", "s", "e", "t", "s", "/", "A", "B", "x", "/", "f">>
MemberLists ==
    {<<>>, Gen4.zips[HotUpdateFileName(N_am)].members, Gen1.apk,
     <<Member(F_theme, <<"1">>), Member(F_hitwav, <<"1">>)>>,
     <<Member(InApk(N_ak), <<"1">>), Member(F_abx, <<"1">>)>>}

\* names a manifest entry may carry
EntryNames ==
    {N_ax, N_aw, <<"a", "_", "x">>, <<"a", "/", "x", ".", "a", "b">>, <<"a", "/", "x", ".", "b", "i", "n">>, <<"a", "#", "x">>, <<"a", "_", "_", "x">>}

VersionFields == {EmptyText, <<"1", ".", "0">>, <<"r", "5">>}
Versions ==
    [client_version : VersionFields, resource_version : VersionFields]

Probes ==
    {Probe("match", ps, f, <<>>, <<>>, DefaultVersion, DefaultVersion) :
        ps \in PatternLists, f \in PathPool}
    \cup {Probe("extract", ps, <<>>, ms, <<>>, DefaultVersion, DefaultVersion) :
        ps \in {<<>>, <<G_bgm>>, <<G_assets>>, IncludePatterns, ApkPatterns},
        ms \in MemberLists}
    \cup {Probe("eq", <<>>, <<>>, <<>>, <<>>, a, b) : a, b \in Versions}
    \cup {Probe("url", <<>>, <<>>, <<>>, <<n, m>>, DefaultVersion, DefaultVersion) :
        n, m \in EntryNames}

PureInit ==
    /\ Start
    /\ remote = Gen1
    /\ versionFile = NoFile
    /\ probe \in Probes
    /\ answer = NoAnswer

\* Filter.compile(patterns)(filename)
FilterApply ==
    /\ probe.fn = "match"
    /\ ~answer.done
    /\ answer' = Answer(TRUE, FilterMatch(probe.patterns, probe.path))
    /\ UNCHANGED <<controller, slots, probe>>

\* _extract(asset_path, zip_path, filter_glob): the destinations written
ExtractApply ==
    /\ probe.fn = "extract"
    /\ ~answer.done
    /\ answer' = Answer(TRUE, WrittenPaths(Retained(probe.members, probe.patterns)))
    /\ UNCHANGED <<controller, slots, probe>>

\* a == b, b == a and a == a
EqApply ==
    /\ probe.fn = "eq"
    /\ ~answer.done
    /\ answer' = Answer(TRUE, <<VersionEq(probe.a, probe.b),
                                VersionEq(probe.b, probe.a),
                                VersionEq(probe.a, probe.a)>>)
    /\ UNCHANGED <<controller, slots, probe>>

\* download_asset, lines 207-208: the archive files of two entries
UrlApply ==
    /\ probe.fn = "url"
    /\ ~answer.done
    /\ answer' = Answer(TRUE, <<HotUpdateFileName(probe.names[1]),
                                HotUpdateFileName(probe.names[2])>>)
    /\ UNCHANGED <<controller, slots, probe>>

PureNext ==
    \/ FilterApply
    \/ ExtractApply
    \/ EqApply
    \/ UrlApply

PureSpec == PureInit /\ [][PureNext]_vars

\* ------------------------------------------------------------ properties
ThisRun == origins[run]
Ended(how) == run >= 1 /\ pc = "off" /\ Len(outcomes) = run /\ outcomes[run] = how
StoreOf(text) == DictMap(StoreLoad(text))

\* the disk a completed first sync against Gen1 leaves is the one Init offers
SyncedGen1Reached ==
    (run = 1 /\ Ended("done") /\ remote = Gen1 /\ origins[1] = EmptyDisk)
        => /\ versionFile = SyncedGen1.versionFile
           /\ tree = SyncedGen1.tree
           /\ StoreOf(storeFile) = StoreOf(SyncedGen1.storeFile)

\* C1: version.txt differs from what the run found only once hot_update has
\* returned: every download task is done, every extraction succeeded and the
\* store file holds the run's integrity map; a run that raised or was killed
\* before the record was opened leaves the record it found.
C1_VersionAfterHotUpdate ==
    run >= 1 =>
      /\ versionFile # ThisRun.versionFile =>
            /\ pc = "persist_write" \/ Ended("done") \/ Ended("killed_commit")
            /\ \A i \in DOMAIN dl : dl[i] = "done"
            /\ DOMAIN ex = DOMAIN unzip_info
            /\ \A i \in DOMAIN ex : ex[i] = "ok"
            /\ stats.manifestFetches = 1
            /\ storeFile = StoreText(data)
      /\ (Ended("error") \/ Ended("killed") \/ Ended("killed_late"))
            => versionFile = ThisRun.versionFile

C1_Witness ==
    /\ Ended("done")
    /\ versionFile = VersionText(remote_version)
    /\ versionFile # ThisRun.versionFile
    /\ Len(download_info) >= 2
    /\ Len(unzip_info) >= 2

\* C2: a run that finds the local version equal to the remote one goes no
\* further than the comparison, and ends UpToDate with nothing fetched,
\* downloaded, extracted or written: version record, store file, asset tree
\* and integrity map are as the run found them.
C2_UpToDateNoWork ==
    /\ pc \notin {"off", "resolve", "compare"}
          => ~(/\ local_version.client_version = remote_version.client_version
               /\ local_version.resource_version = remote_version.resource_version)
    /\ Ended("uptodate") =>
          /\ stats = NoStats
          /\ versionFile = ThisRun.versionFile
          /\ storeFile = ThisRun.storeFile
          /\ tree = ThisRun.tree
          /\ data = StoreLoad(ThisRun.storeFile)
          /\ DOMAIN dl = {} /\ DOMAIN ex = {}

C2_Witness ==
    /\ Ended("uptodate")
    /\ ThisRun.versionFile = VersionText(remote_version)

\* C3: the run that follows a run which completed the sync, against the same
\* remote, downloads nothing and extracts nothing.
C3_SecondRunIdle ==
    (run >= 2 /\ outcomes[run - 1] = "done") =>
        /\ stats.downloads = 0
        /\ stats.extractions = 0
        /\ stats.clientFetches = 0
        /\ stats.clientUnpacks = 0
        /\ pc \in {"off", "resolve", "compare"}

C3_Witness ==
    /\ run >= 2
    /\ outcomes[run - 1] = "done"
    /\ Ended("uptodate")
    /\ remote_version.client_version # remote_version.resource_version

RECURSIVE UnpackAll(_, _)
\* the asset tree after the archives of the unpack list were all extracted
UnpackAll(t, infos) ==
    IF infos = <<>> THEN t
    ELSE UnpackAll(WriteMembers(t, Retained(remote.zips[HotUpdateFileName(infos[1].name)].members,
                                            IncludePatterns)),
                   Tail(infos))

\* the asset tree and the integrity map that one run of _start leaves when
\* it starts from the disk o and nothing fails or interrupts it
Uninterrupted(o) ==
    LET lv == VersionLoad(o.versionFile)
        rv == [client_version |-> remote.clientVersion,
               resource_version |-> remote.resVersion]
        swap == lv.client_version # rv.client_version /\ remote.apkFound
        t1 == IF swap THEN WriteMembers(o.tree, Retained(remote.apk, ApkPatterns))
              ELSE o.tree
        d1 == IF swap THEN cal_files(<<>>, FilesUnderRoot(t1), t1, {})
              ELSE StoreLoad(o.storeFile)
        unpack == check_hot_update(DownloadList(InitMode(lv)), d1, [f \in {} |-> <<>>]).unpack
        t2 == UnpackAll(t1, unpack)
        written == [i \in DOMAIN unpack |->
                      WrittenPaths(Retained(remote.zips[HotUpdateFileName(unpack[i].name)].members,
                                            IncludePatterns))]
        d2 == check_md5_loop(d1, unpack, written, t2, {})
    IN  IF VersionEq(lv, rv) THEN [tree |-> o.tree, store |-> StoreOf(o.storeFile)]
        ELSE [tree |-> t2, store |-> DictMap(d2)]

\* a run that completes leaves what Uninterrupted computes from its start
UninterruptedIsTheRun ==
    Ended("done") => /\ tree = Uninterrupted(ThisRun).tree
                     /\ StoreOf(storeFile) = Uninterrupted(ThisRun).store

\* C4: a run killed after the download batch and before version.txt is
\* opened, then a run that completes, leave the asset tree and the integrity
\* store that one uninterrupted run from the first run's disk leaves.
C4_ResumedEqualsUninterrupted ==
    (run >= 2 /\ Ended("done") /\ outcomes[run - 1] = "killed_late") =>
        /\ tree = Uninterrupted(origins[run - 1]).tree
        /\ StoreOf(storeFile) = Uninterrupted(origins[run - 1]).store

InSeq(e, seq) == \E i \in DOMAIN seq : seq[i] = e
Excluded(e) == FilterMatch(ExcludePatterns, e.name)
Included(e) == FilterMatch(IncludePatterns, e.name)
\* the stored hash of the entry's name is the hash the entry declares
Current(e, d) == e.name \in DOMAIN DictMap(d) /\ DictMap(d)[e.name] = e.md5
ArchiveOf(e) == HotUpdateFileName(e.name)
IsPack(e) == \E i \in DOMAIN remote.packInfos : remote.packInfos[i].name = e.name

\* C5: no archive of the batch is extracted, and no extraction task exists,
\* while a download task of the batch has not finished.
C5_DownloadBarrier ==
    (pc = "extracting" \/ stats.extractions > 0 \/ DOMAIN ex # {})
        => \A i \in DOMAIN dl : dl[i] = "done"

C5_Witness ==
    /\ pc = "extracting"
    /\ Len(download_info) >= 2
    /\ stats.downloads >= 2
    /\ stats.extractions >= 1

\* C6: a process constructed on a root without version.txt is in
\* initialization mode, one constructed on a root with a record is not.
C6_InitModeOnFreshRoot ==
    (run >= 1 /\ pc # "off") => (init_mode <=> ThisRun.versionFile = NoFile)

\* C7: the unpack list holds a pack entry exactly in the runs that started
\* without version.txt (the pack entry a/p passes both filters and is never
\* current).
C7_PackOnlyWhenUninitialised ==
    pc = "downloading" =>
        ((\E i \in DOMAIN unzip_info : IsPack(unzip_info[i]))
            <=> ThisRun.versionFile = NoFile)

\* C8: after check_hot_update a manifest entry is in the unpack list iff it
\* is not excluded, is included and is not current; an excluded entry is in
\* neither list; the download list is part of the unpack list.
C8_UnpackSet ==
    pc = "downloading" =>
        /\ \A k \in DOMAIN DownloadList(init_mode) :
              LET e == DownloadList(init_mode)[k]
              IN  /\ InSeq(e, unzip_info)
                        <=> (~Excluded(e) /\ Included(e) /\ ~Current(e, data))
                  /\ Excluded(e) => (~InSeq(e, unzip_info) /\ ~InSeq(e, download_info))
        /\ \A i \in DOMAIN download_info : InSeq(download_info[i], unzip_info)
        /\ \A i \in DOMAIN unzip_info : InSeq(unzip_info[i], DownloadList(init_mode))

C8_Witness ==
    /\ pc = "downloading"
    /\ unzip_info # <<>>
    /\ Len(download_info) < Len(unzip_info)
    /\ \E k \in DOMAIN DownloadList(init_mode) :
          Excluded(DownloadList(init_mode)[k]) /\ Included(DownloadList(init_mode)[k])
    /\ \E k \in DOMAIN DownloadList(init_mode) :
          /\ ~Excluded(DownloadList(init_mode)[k])
          /\ Included(DownloadList(init_mode)[k])
          /\ Current(DownloadList(init_mode)[k], data)

\* C9: check_hot_update leaves an archive whose size is the entry's
\* totalSize as it is and keeps the entry out of the download list; it
\* deletes an archive of another size and lists the entry for download; it
\* lists the entry of an absent archive for download.  So a run transfers no
\* more archives than its download list names, and no transfer touches an
\* archive that is on disk.
C9_CompleteArchiveKept ==
    [][/\ (pc = "check" /\ pc' = "downloading") =>
            \A i \in DOMAIN unzip_info' :
               LET e == unzip_info'[i]
                   zip == ArchiveOf(e)
               IN  /\ (zip \in DOMAIN archives /\ archives[zip].size = e.total_size)
                          => /\ zip \in DOMAIN archives'
                             /\ archives'[zip] = archives[zip]
                             /\ ~InSeq(e, download_info')
                   /\ (zip \in DOMAIN archives /\ archives[zip].size # e.total_size)
                          => (zip \notin DOMAIN archives' /\ InSeq(e, download_info'))
                   /\ zip \notin DOMAIN archives => InSeq(e, download_info')
       /\ stats'.downloads <= Len(download_info')
       /\ (pc = "downloading" /\ pc' = "downloading") =>
            \A zip \in DOMAIN archives :
                zip \in DOMAIN archives' /\ archives'[zip] = archives[zip]
      ]_vars

C9_Witness ==
    /\ pc = "downloading"
    /\ stats.downloads >= 1
    /\ \E i \in DOMAIN unzip_info :
          /\ ~InSeq(unzip_info[i], download_info)
          /\ ArchiveOf(unzip_info[i]) \in DOMAIN archives
          /\ archives[ArchiveOf(unzip_info[i])].size = unzip_info[i].total_size

\* C10: check_info answers true exactly for an entry whose name is a key of
\* the integrity map with the declared hash as value, so an entry that
\* passes the filters is unpacked iff that is not the case; the map is the
\* same after the check.
C10_CheckInfo ==
    [][(pc = "check" /\ pc' = "downloading") =>
          /\ data' = data
          /\ \A k \in DOMAIN DownloadList(init_mode) :
                LET e == DownloadList(init_mode)[k]
                IN  (~Excluded(e) /\ Included(e)) =>
                       (InSeq(e, unzip_info') <=>
                           ~(e.name \in DictKeys(data) /\ DictMap(data)[e.name] = e.md5))
      ]_vars

C10_Witness ==
    /\ pc = "downloading"
    /\ \E k \in DOMAIN DownloadList(init_mode) :
          LET e == DownloadList(init_mode)[k]
          IN  ~Excluded(e) /\ Included(e) /\ e.name \notin DictKeys(data)
    /\ \E k \in DOMAIN DownloadList(init_mode) :
          LET e == DownloadList(init_mode)[k]
          IN  /\ ~Excluded(e) /\ Included(e) /\ e.name \in DictKeys(data)
              /\ DictMap(data)[e.name] # e.md5
    /\ \E k \in DOMAIN DownloadList(init_mode) :
          LET e == DownloadList(init_mode)[k]
          IN  /\ ~Excluded(e) /\ Included(e) /\ e.name \in DictKeys(data)
              /\ DictMap(data)[e.name] = e.md5

\* every entry of the manifest being served, bundles then packs
ManifestEntries == Infos(remote.abInfos) \o Infos(remote.packInfos)

\* C11: in every state of the integrity map, check_info answers false for
\* every manifest entry that declares no hash.
C11_NoHashNeverCurrent ==
    \A k \in DOMAIN ManifestEntries :
        ManifestEntries[k].md5 = NoneVal => ~check_info(data, ManifestEntries[k])

\* where check_hot_update calls check_info the map holds no None, so there
\* an entry without a hash that passes the filters is unpacked
NoHashUnpackedAtCheck ==
    /\ pc = "check" => \A i \in DOMAIN data : data[i][2] # NoneVal
    /\ pc = "downloading" =>
          \A k \in DOMAIN DownloadList(init_mode) :
             LET e == DownloadList(init_mode)[k]
             IN  (e.md5 = NoneVal /\ ~Excluded(e) /\ Included(e)) => InSeq(e, unzip_info)

\* C12: every step that changes the store file leaves in it the complete
\* text of the integrity map being persisted; the file never goes through
\* an empty or partial content of a non-empty map.
C12_WholeFileReplace ==
    [][storeFile' # storeFile => storeFile' = StoreText(data')]_vars

\* every key of the persisted map names a file of the asset root whose
\* content hashes to the stored value
StoreSound(text, t) ==
    \A k \in DictKeys(StoreLoad(text)) :
        /\ InTree(k) \in DOMAIN t
        /\ DictGet(StoreLoad(text), k) = Md5(t[InTree(k)])

\* C13: right after the store was persisted (by cal_all or by hot_update),
\* every path of the persisted map names an existing file whose content hash
\* is the stored hash.
C13_StoreSound ==
    pc \in {"unlink_apk", "rmtree"} => StoreSound(storeFile, tree)

\* the paths written by the extractions of the batch
WrittenByBatch ==
    UNION {{unzip_files[i][j] : j \in DOMAIN unzip_files[i]} : i \in DOMAIN unzip_files}

\* the writes of the store file made by hot_update (cal_all, when it ran
\* before, made two: the emptied map and the recomputed one)
HotUpdateWrites == stats.storeWrites - (IF stats.clientUnpacks > 0 THEN 2 ELSE 0)

\* C14: after the reconcile step of hot_update every file written by the
\* extraction of an unpacked archive is a key of the integrity map; hot_update
\* writes the store file once, after the whole batch was reconciled.
C14_EveryWrittenFileRecorded ==
    /\ pc = "save" => \A q \in WrittenByBatch : StoreKey(q) \in DictKeys(data)
    /\ pc \in {"check", "downloading", "extracting", "check_md5", "save", "write"}
          => HotUpdateWrites = 0
    /\ pc \in {"rmtree", "persist", "persist_write"} => HotUpdateWrites = 1

\* the entries of the batch that declare a hash have, for the first file
\* their archive gave, the hash of the file on disk as value in the map d
LocallyRecorded(d) ==
    \A i \in DOMAIN unzip_files :
        (unzip_info[i].md5 # NoneVal /\ Len(unzip_files[i]) > 0) =>
            /\ DictHas(d, StoreKey(unzip_files[i][1]))
            /\ DictGet(d, StoreKey(unzip_files[i][1])) = Md5(tree[unzip_files[i][1]])

\* an entry of the batch whose declared hash is not the hash of the file its
\* archive gave
Mismatch(i) ==
    /\ unzip_info[i].md5 # NoneVal
    /\ Len(unzip_files[i]) > 0
    /\ Md5(tree[unzip_files[i][1]]) # unzip_info[i].md5

\* C15: the reconcile step of hot_update never ends the run because a
\* computed hash differs from the declared one (it raises only for a path
\* outside the asset root); past it the map, and then the persisted store
\* and the committed run, hold the locally computed hash of every such file.
C15_MismatchNotFatal ==
    [][/\ (pc = "check_md5" /\ ~check_md5_raises(unzip_info, unzip_files))
             => (pc' = "save" \/ outcomes' = Append(outcomes, "killed_late"))
       /\ pc' \in {"save", "write", "rmtree", "persist", "persist_write"}
             => LocallyRecorded(data')
       /\ (pc' \in {"rmtree", "persist", "persist_write"} \/ Ended("done")')
             => LocallyRecorded(StoreLoad(storeFile'))
      ]_vars

C15_Witness ==
    /\ Ended("done")
    /\ versionFile = VersionText(remote_version)
    /\ \E i \in DOMAIN unzip_files :
          /\ Mismatch(i)
          /\ i < Len(unzip_info)
          /\ DictGet(StoreLoad(storeFile), StoreKey(unzip_files[i][1]))
                 = Md5(tree[unzip_files[i][1]])
          /\ DictHas(StoreLoad(storeFile), unzip_info[i + 1].name)

\* the steps of hot_update after get_file_list, and the commit
AfterFileList == {"check", "downloading", "extracting", "check_md5", "save",
                  "write", "rmtree", "persist", "persist_write"}

\* C16: when the manifest's versionId is not the resource version the
\* version endpoint gave, the run ends with an error in get_file_list: no
\* step of hot_update after it is taken, no archive is downloaded or
\* extracted, and version.txt stays as the run found it.
C16_VersionIdMismatchAborts ==
    (run >= 1 /\ remote.versionId # remote.resVersion) =>
        /\ pc \notin AfterFileList
        /\ stats.manifestFetches = 1 => Ended("error")
        /\ stats.downloads = 0 /\ stats.extractions = 0
        /\ DOMAIN dl = {} /\ DOMAIN ex = {}
        /\ versionFile = ThisRun.versionFile

C16_Witness ==
    /\ Ended("error")
    /\ stats.manifestFetches = 1
    /\ remote.versionId # remote_version.resource_version
    /\ stats.clientUnpacks = 1

\* C17: a run that found a local client version other than the remote one
\* and went on to hot_update, or committed, has unpacked the client package
\* and recomputed and saved the whole integrity store before.
C17_ClientSwapBeforeCommit ==
    ((pc \in AfterFileList \/ Ended("done"))
        /\ local_version.client_version # remote_version.client_version)
      => /\ stats.clientUnpacks = 1
         /\ stats.storeWrites >= 2

\* C18: a failed hash computation in cal_all or cal_files leaves the hashes
\* of the other files in the map, and the save of the store that follows
\* does not raise.
C18_HashFailureNotFatal ==
    [][/\ (pc = "cal_files" /\ pc' = "cal_save") =>
             \A q \in DOMAIN tree :
                UnderAndroid(q) =>
                   /\ DictHas(data', StoreKey(q))
                   /\ DictGet(data', StoreKey(q)) \in {Md5(tree[q]), NoneVal}
       /\ pc \in {"cal_write", "write"} => outcomes' # Append(outcomes, "error")
      ]_vars

\* C19: request returns the smallest released position when one exists, and
\* takes it out of the released ones without moving the counter; otherwise
\* it returns the counter and increments it.
C19_RequestSmallestReleased ==
    [][(call'.op = "request" /\ dispatcher' # dispatcher) =>
          IF dispatcher.released_set # {}
          THEN /\ call'.position = Min(dispatcher.released_set)
               /\ dispatcher'.released_set = dispatcher.released_set \ {call'.position}
               /\ dispatcher'.counter = dispatcher.counter
          ELSE /\ call'.position = dispatcher.counter
               /\ dispatcher'.counter = dispatcher.counter + 1
               /\ dispatcher'.released_set = {}
      ]_vars

\* after the requests that returned 0, 1 and 2 and release(1), a request
\* returned 1
C19_Witness ==
    /\ call = Call("request", 1, FALSE)
    /\ dispatcher.counter = 3
    /\ dispatcher.released_set = {}

\* the position p is not held by a caller: never issued, or released
NotIssued(d, p) == ~(0 <= p /\ p < d.counter /\ p \notin d.released_set)

\* C20: release(p) of a position that is not issued raises and leaves the
\* dispatcher as it was.
C20_ReleaseOfUnissuedRaises ==
    [][(/\ call'.op = "release"
        /\ <<dispatcher, call>>' # <<dispatcher, call>>
        /\ NotIssued(dispatcher, call'.position))
          => (call'.raised /\ dispatcher' = dispatcher)
      ]_vars

\* C21: in every interleaving of holders that request, hold and release,
\* every position held is a non-negative integer, no two holders hold the
\* same position, and no release of a held position raises.
C21_SlotsExclusive ==
    /\ \A h \in Holders : \A p \in held[h] : p >= 0
    /\ \A h1, h2 \in Holders : h1 # h2 => held[h1] \cap held[h2] = {}
    /\ ~call.raised

\* a released position was issued again while another holder holds one
C21_Witness ==
    /\ Cardinality({h \in Holders : held[h] # {}}) >= 2
    /\ call.op = "request"
    /\ call.position < dispatcher.counter - 1
    /\ \E h \in Holders : held[h] = {call.position}

\* a pattern with at most one `*` matches the whole of s when s begins with
\* what stands before the `*` and ends with what stands after it, the two
\* not overlapping; without `*` the pattern is the path
StarMatch(p, s) ==
    LET stars == {i \in 1..Len(p) : p[i] = "*"}
    IN  IF stars = {} THEN p = s
        ELSE LET i == CHOOSE k \in stars : TRUE
                 pre == SubSeq(p, 1, i - 1)
                 suf == SubSeq(p, i + 1, Len(p))
             IN  /\ Len(s) >= Len(pre) + Len(suf)
                 /\ SubSeq(s, 1, Len(pre)) = pre
                 /\ SubSeq(s, Len(s) - Len(suf) + 1, Len(s)) = suf

Matched == answer.done /\ probe.fn = "match"

\* C22: a matcher compiled from a non-empty pattern list answers true for a
\* path exactly when one of the patterns matches the whole path, `*`
\* standing for any run of characters, `/` included; for bgm/* and se/*.ogg
\* it accepts bgm/theme.mp3 and se/hit.ogg and rejects se/hit.wav and
\* voice/1.mp3.
C22_MatchIsDisjunction ==
    (Matched /\ probe.patterns # <<>> /\ ~InSeq("\\", probe.path)) =>
        /\ answer.value <=>
               \E i \in 1..Len(probe.patterns) : StarMatch(probe.patterns[i], probe.path)
        /\ probe.patterns = <<G_bgm, G_seogg>> =>
               /\ probe.path \in {F_theme, F_hitogg, F_deep} => answer.value
               /\ probe.path \in {F_hitwav, F_voice1, F_bak} => ~answer.value

C22_Witness ==
    /\ Matched
    /\ probe.patterns = <<G_bgm, G_seogg>>
    /\ probe.path = F_hitogg
    /\ answer.value

\* C23: a matcher compiled from an empty pattern list answers false for
\* every path, and an extraction with no filter pattern writes no member.
C23_EmptyFilterMatchesNothing ==
    (answer.done /\ probe.fn \in {"match", "extract"} /\ probe.patterns = <<>>) =>
        /\ probe.fn = "match" => answer.value = FALSE
        /\ probe.fn = "extract" => answer.value = <<>>

Compared == answer.done /\ probe.fn = "eq"

\* C24: two versions compare equal exactly when their client versions are
\* equal and their resource versions are equal; a version equals itself,
\* a == b and b == a agree, and a difference in either field makes the
\* versions differ.
C24_VersionEquality ==
    Compared =>
        /\ answer.value[1] <=>
               (probe.a.client_version = probe.b.client_version
                /\ probe.a.resource_version = probe.b.resource_version)
        /\ answer.value[3]
        /\ answer.value[1] <=> answer.value[2]
        /\ probe.a.client_version # probe.b.client_version => ~answer.value[1]
        /\ probe.a.resource_version # probe.b.resource_version => ~answer.value[1]

C24_Witness ==
    /\ Compared
    /\ probe.a = [client_version |-> <<"1", ".", "0">>, resource_version |-> <<"r", "5">>]
    /\ probe.b = probe.a
    /\ answer.value[1]

NoRecord == run >= 1 /\ ThisRun.versionFile = NoFile
Populated(v) == v.client_version # EmptyText \/ v.resource_version # EmptyText

\* C25: on a root with no version record GameVersion.load does not fail and
\* gives a version with two empty fields, which differs from every version
\* fetched from the remote that has a non-empty field; a run that found no
\* version record never ends UpToDate.
C25_FirstRunNeverUpToDate ==
    [][/\ (pc = "off" /\ run' = run + 1 /\ versionFile = NoFile
            /\ ~StoreLoadFails(storeFile)) => pc' = "resolve"
       /\ (NoRecord /\ pc # "off")' =>
              (/\ local_version.client_version = EmptyText
               /\ local_version.resource_version = EmptyText)'
       /\ (NoRecord /\ pc = "compare" /\ Populated(remote_version)) =>
              ~VersionEq(local_version, remote_version)
       /\ (NoRecord => ~Ended("uptodate"))']_vars

C25_Witness ==
    /\ run = 1
    /\ NoRecord
    /\ Ended("done")
    /\ Populated(remote_version)
    /\ local_version = DefaultVersion

Eligible(e) == Included(e) /\ ~Excluded(e)
\* the manifest of the scenario: three bundle entries, one matching the
\* exclusion filter, two eligible
ThreeEntries ==
    /\ Len(remote.abInfos) = 3
    /\ Cardinality({i \in 1..3 : Excluded(from_dict(remote.abInfos[i]))}) = 1
    /\ Cardinality({i \in 1..3 : Eligible(from_dict(remote.abInfos[i]))}) = 2
TwoOfEach ==
    /\ stats.downloads = 2
    /\ stats.extractions = 2
    /\ Cardinality(DictKeys(StoreLoad(storeFile))) = 2
\* the first run on an empty root, with a client package none of whose
\* members the asset filter retains
EmptyRootBarePackage ==
    /\ run = 1
    /\ ThisRun = EmptyDisk
    /\ Retained(remote.apk, ApkPatterns) = <<>>

\* C26 (as stated): with no local version record and a manifest of three
\* bundle entries, one excluded and two eligible, a successful run makes
\* exactly 2 downloads and 2 extractions and ends with a store of exactly
\* 2 keys.
C26_ScenarioAsStated ==
    (NoRecord /\ ThreeEntries /\ Ended("done")) => TwoOfEach

\* C26 (amended): on the first run on an empty root, when the client
\* package adds no file to the asset root, a successful run against such a
\* manifest makes exactly 2 downloads and 2 extractions and ends with a
\* store of exactly 2 keys, the names of the two eligible entries; the
\* version record is written only after both extractions succeeded.
C26_Scenario ==
    (EmptyRootBarePackage /\ ThreeEntries) =>
        /\ Ended("done") =>
               /\ TwoOfEach
               /\ DictKeys(StoreLoad(storeFile)) =
                      {remote.abInfos[i].name : i \in
                          {j \in 1..3 : Eligible(from_dict(remote.abInfos[j]))}}
        /\ versionFile # NoFile =>
               /\ Len(ex) = 2
               /\ \A i \in DOMAIN ex : ex[i] = "ok"
               /\ stats.extractions = 2

C26_Witness ==
    /\ EmptyRootBarePackage
    /\ ThreeEntries
    /\ Ended("done")
    /\ stats.clientUnpacks = 1
    /\ versionFile = <<"1", NL, "5">>

\* C27: when a download of the batch failed, so that its archive is not in
\* the hot-update directory once the download tasks have returned, the
\* extraction phase of that batch is not started.
C27_NoExtractionAfterFailedDownload ==
    (run >= 1 /\ pc = "extracting") =>
        \A i \in DOMAIN download_info :
            HotUpdateFileName(download_info[i].name) \in DOMAIN archives

\* C28: when the extraction of one archive of the batch failed and the run
\* ended with that failure, every other extraction of the batch has run to
\* its end and its outcome is known, and the version record is the one the
\* run found.
C28_SiblingsCollected ==
    (Ended("error") /\ \E i \in DOMAIN ex : ex[i] = "failed") =>
        /\ \A i \in DOMAIN ex : ex[i] # "pending"
        /\ versionFile = ThisRun.versionFile

\* the steps inside FileChecker.save (clear calls it too)
SaveSteps == {"cal_clear", "cal_save", "cal_write", "save", "write"}
\* the files hot_update hands to update, with the hashes it may pass
Updates ==
    {<<unzip_files[i][1], h>> :
        i \in {n \in DOMAIN unzip_files :
                 /\ n \in DOMAIN unzip_info
                 /\ unzip_info[n].md5 # NoneVal
                 /\ Len(unzip_files[n]) > 0
                 /\ UnderAndroid(unzip_files[n][1])},
        h \in {Md5(<<"1">>), Md5(<<"5">>), NoneVal}}

\* C29: the step of hot_update that applies update (and cal_files) changes
\* the in-memory map only: the store file, the version record and the tree
\* are as before; applying an update a second time gives the map the first
\* application gave; the store file changes only in a step of save.
C29_UpdateInMemoryOnly ==
    [][/\ pc = "check_md5" => disk' = disk
       /\ pc = "check_md5" =>
              \A u \in Updates :
                  update(update(data, u[1], u[2]), u[1], u[2]) = update(data, u[1], u[2])
       /\ pc' = "save" =>
              \A u \in Updates :
                  /\ DictHas(data', StoreKey(u[1]))
                  /\ update(data', u[1], DictGet(data', StoreKey(u[1]))) = data'
       /\ storeFile' # storeFile => pc \in SaveSteps]_vars

C29_Witness ==
    /\ pc = "save"
    /\ storeFile = ThisRun.storeFile
    /\ \E u \in Updates :
          /\ DictHas(data, StoreKey(u[1]))
          /\ ~DictHas(StoreLoad(storeFile), StoreKey(u[1]))

\* C30: cal_all writes the store file once, at its end: while the hashes
\* are computed and until the final save opens the file, the store file is
\* the one the run found; when cal_all has returned the store was written
\* once and the map's keys are the regular files under the asset root.
C30_CalAllWritesOnce ==
    /\ (run >= 1 /\ pc \in {"cal_files", "cal_save"}) => storeFile = ThisRun.storeFile
    /\ (run >= 1 /\ pc = "unlink_apk") =>
           /\ stats.storeWrites = 1
           /\ DictKeys(data) = {StoreKey(q) : q \in {t \in DOMAIN tree : UnderAndroid(t)}}

Extracted == answer.done /\ probe.fn = "extract"
\* the member lies under the directory assets/AB
UnderPrefix(name) == StartsWith(name, AssetsAB \o <<"/">>)
\* a destination relative to the extraction root that does not leave it
InsideRoot(dest) ==
    /\ Components(dest) # <<>>
    /\ \A k \in 1..Len(Components(dest)) :
           Cardinality({j \in 1..k : Components(dest)[j] = <<".", ".">>}) * 2 < k + 1
    /\ Components(dest)[1] # <<".", ".">>

\* C31: every retained member is written inside the extraction root: a
\* member under assets/AB/ at its path relative to that prefix, every
\* other member at Android/<member>; a member whose name only begins
\* with the characters of the prefix is not written outside the root.
C31_DestinationsInsideRoot ==
    (Extracted /\ probe.patterns # <<>>) =>
        LET ms == Retained(probe.members, probe.patterns)
        IN  /\ Len(answer.value) = Len(ms)
            /\ \A i \in DOMAIN ms :
                   /\ InsideRoot(answer.value[i])
                   /\ answer.value[i] =
                          IF UnderPrefix(ms[i].name)
                          THEN SubSeq(ms[i].name, Len(AssetsAB) + 2, Len(ms[i].name))
                          ELSE AndroidDir \o <<"/">> \o ms[i].name

\* the positions some holder holds
Issued == UNION {held[h] : h \in Holders}

\* C32: when holders request positions and release the positions they
\* hold, request returns the smallest non-negative integer no holder held
\* when it was called, and no held position exceeds the largest number of
\* simultaneous holders so far minus one.
C32_SlotsDense ==
    /\ call.op = "request" =>
           /\ call.position >= 0
           /\ Cardinality({h \in Holders : call.position \in held[h]}) = 1
           /\ \A q \in 0..(call.position - 1) : q \in Issued
    /\ \A p \in Issued : p <= peak - 1

C32_Witness ==
    /\ call.op = "request"
    /\ call.position = 0
    /\ Issued = {0, 1, 2}
    /\ HeldCount(held) = 3
    /\ peak = 3
    /\ dispatcher.counter = 3

\* C33: every integrity map a run holds can be saved, and loading the
\* saved text in a fresh FileChecker succeeds and gives the same map;
\* loading a missing store file gives the empty map.
C33_StoreRoundTrip ==
    /\ StoreLoad(NoFile) = <<>>
    /\ ~StoreLoadFails(NoFile)
    /\ run >= 1 =>
           /\ ~StoreSaveFails(data)
           /\ ~StoreLoadFails(StoreText(data))
           /\ StoreLoad(StoreText(data)) = data

\* what the extraction of the archive of the i-th unpack entry writes
WrittenFor(i) ==
    WrittenPaths(Retained(archives[HotUpdateFileName(unzip_info[i].name)].members,
                          IncludePatterns))

\* C34: when extract_files has returned, its i-th list is the list the
\* extraction of the i-th unpack entry's archive returned, in whatever order
\* the extractions completed: the files of that archive and of no other.
C34_ResultsInTaskOrder ==
    pc = "check_md5" =>
        /\ Len(unzip_files) = Len(unzip_info)
        /\ \A k \in DOMAIN res : unzip_files[res[k][1]] = res[k][2]
        /\ \A i \in DOMAIN unzip_info : unzip_files[i] = WrittenFor(i)

C34_Witness ==
    /\ pc = "check_md5"
    /\ Len(res) >= 2
    /\ res[1][1] > res[2][1]
    /\ unzip_files[1] # unzip_files[2]
    /\ unzip_files[1] = WrittenFor(1)

\* C35: when every request, mission and task finishes, every run that was
\* started reaches a terminal state: the process is no longer running.
C35_EveryRunEnds == (pc # "off") ~> (pc = "off")

\* C36: two manifest entries with different names have different archive
\* files in the hot-update directory.
C36_ArchiveNamesDistinct ==
    (answer.done /\ probe.fn = "url" /\ probe.names[1] # probe.names[2]) =>
        answer.value[1] # answer.value[2]

====
